---------------------------- MODULE Spec2Model ----------------------------
(***************************************************************************)
(* Model of the dune-weaver polar table firmware, src/esp32/esp32.ino:     *)
(* the serial dispatcher of loop(), homing(), resetTheta(), movePolar()    *)
(* and interpolatePath().                                                  *)
(*                                                                         *)
(* Numbers.  The firmware computes in float.  The model computes in fixed  *)
(* point: one unit is interpolationResolution (0.0004), so 1.0 is 2500     *)
(* units, M_PI (3.1416) is 7854 units and every input value used below is  *)
(* a multiple of 0.0004.  A C cast (long)(x) or (int)(x) truncates toward  *)
(* zero and is modelled by TruncDiv.                                       *)
(*                                                                         *)
(* Text.  A line is a sequence of one-character strings.  The Arduino      *)
(* String operations (startsWith, endsWith, indexOf, substring, toFloat)   *)
(* are modelled on character sequences with the library's 0-based          *)
(* indexes.  The lines offered are decimal text: exponents and the words   *)
(* atof reads as non-finite values are not among them.                     *)
(*                                                                         *)
(* Control.  The firmware is one thread: setup(), then loop() for ever.    *)
(* pc is its position.  A command is handled in one step; the homing jog   *)
(* advances one poll cycle per step, a batch one movePolar() call per      *)
(* step.  Variables marked history record what happened and are read by    *)
(* the properties only.                                                    *)
(***************************************************************************)
EXTENDS Integers, Sequences, FiniteSets, TLC

(***************************************************************************)
(* Program constants                                                       *)
(***************************************************************************)
rot_total_steps == 13730
inOut_total_steps == 4642
\* gearRatio = 100.0f / 15.0f, kept as a fraction
gearRatioNum == 100
gearRatioDen == 15
BUFFER_SIZE == 10
\* units per 1.0: 1 / interpolationResolution = 1 / 0.0004
UnitsPerOne == 2500
\* interpolationResolution, in units
interpolationResolution == 1
\* M_PI in units: 3.1416 / 0.0004
M_PI == 7854
\* float maxSpeed = 550, in units
maxSpeed == 1375000
\* AccelStepper's maximum speed after construction (1.0), in units;
\* setup() overwrites it before any use
DefaultMaxSpeed == 2500
\* (unsigned int)(-1) exceeds every string length; TLC integers are 32 bit
UINT_WRAP == 2147483647

(***************************************************************************)
(* Arithmetic helpers                                                      *)
(***************************************************************************)
Min(a, b) == IF a < b THEN a ELSE b
Max(a, b) == IF a > b THEN a ELSE b

\* C conversion of a quotient to an integer type: truncation toward zero
TruncDiv(a, b) ==
    IF a >= 0 THEN a \div b ELSE -((-a) \div b)

\* round to nearest, halves away from zero (the spec's round())
RoundDiv(a, b) ==
    IF a >= 0 THEN (2 * a + b) \div (2 * b) ELSE -((2 * (-a) + b) \div (2 * b))

RECURSIVE Pow10(_)
Pow10(n) == IF n = 0 THEN 1 ELSE 10 * Pow10(n - 1)

\* floor of the square root, by bisection on lo..hi
RECURSIVE SqrtBetween(_, _, _)
SqrtBetween(x, lo, hi) ==
    IF lo >= hi THEN lo
    ELSE LET mid == (lo + hi + 1) \div 2
         IN IF mid * mid <= x THEN SqrtBetween(x, mid, hi)
            ELSE SqrtBetween(x, lo, mid - 1)

ISqrt(x) == SqrtBetween(x, 0, 46340)

(***************************************************************************)
(* Arduino String operations on character sequences                        *)
(***************************************************************************)
Digits == {"0", "1", "2", "3", "4", "5", "6", "7", "8", "9"}

DigitVal(c) ==
    CASE c = "0" -> 0 [] c = "1" -> 1 [] c = "2" -> 2 [] c = "3" -> 3
      [] c = "4" -> 4 [] c = "5" -> 5 [] c = "6" -> 6 [] c = "7" -> 7
      [] c = "8" -> 8 [] c = "9" -> 9

startsWith(s, p) ==
    /\ Len(p) <= Len(s)
    /\ SubSeq(s, 1, Len(p)) = p

endsWith(s, p) ==
    /\ Len(p) <= Len(s)
    /\ SubSeq(s, Len(s) - Len(p) + 1, Len(s)) = p

\* 0-based index of the first c at or after 0-based position from, or -1
RECURSIVE indexOf(_, _, _)
indexOf(s, c, from) ==
    IF from >= Len(s) THEN -1
    ELSE IF s[from + 1] = c THEN from
    ELSE indexOf(s, c, from + 1)

\* an int passed as unsigned int
ToUnsigned(x) == IF x < 0 THEN UINT_WRAP + (x + 1) ELSE x

\* String::substring(left, right): arguments are unsigned, swapped when
\* left > right, and right is cut to the length
substring(s, left, right) ==
    LET l0 == ToUnsigned(left)
        r0 == ToUnsigned(right)
        l == Min(l0, r0)
        r == Max(l0, r0)
    IN IF l >= Len(s) THEN << >> ELSE SubSeq(s, l + 1, Min(r, Len(s)))

\* String::substring(left)
substringFrom(s, left) == substring(s, left, Len(s))

\* 1-based position of the first character at or after k that is no blank
RECURSIVE SkipSpaces(_, _)
SkipSpaces(s, k) ==
    IF k <= Len(s) /\ s[k] = " " THEN SkipSpaces(s, k + 1) ELSE k

\* 1-based position of the first character at or after k that is no digit
RECURSIVE DigitsEnd(_, _)
DigitsEnd(s, k) ==
    IF k <= Len(s) /\ s[k] \in Digits THEN DigitsEnd(s, k + 1) ELSE k

\* value of the digits s[a] .. s[b-1]
RECURSIVE DigitsValue(_, _, _)
DigitsValue(s, a, b) ==
    IF a >= b THEN 0 ELSE 10 * DigitsValue(s, a, b - 1) + DigitVal(s[b - 1])

\* String::toFloat (atof): leading blanks, a sign, digits, a point and
\* digits; parsing stops at the first other character; 0 when there is no
\* number.  The result is in units; at most four decimals are kept.
toFloat(s) ==
    LET p0 == SkipSpaces(s, 1)
        neg == p0 <= Len(s) /\ s[p0] = "-"
        p1 == IF p0 <= Len(s) /\ s[p0] \in {"+", "-"} THEN p0 + 1 ELSE p0
        p2 == DigitsEnd(s, p1)
        hasDot == p2 <= Len(s) /\ s[p2] = "."
        p3 == IF hasDot THEN DigitsEnd(s, p2 + 1) ELSE p2
        kept == IF hasDot THEN Min(p3 - (p2 + 1), 4) ELSE 0
        mant == DigitsValue(s, p1, p2) * Pow10(kept)
                  + DigitsValue(s, p2 + 1, p2 + 1 + kept)
        val == (mant * UnitsPerOne) \div Pow10(kept)
    IN IF neg THEN -val ELSE val

(***************************************************************************)
(* Input lines offered on the serial channel                               *)
(***************************************************************************)
\* number of lines read from the channel in one run
MaxLines == 3

cHOME == <<"H", "O", "M", "E">>
cRESET_THETA == <<"R", "E", "S", "E", "T", "_", "T", "H", "E", "T", "A">>
cSET_SPEED == <<"S", "E", "T", "_", "S", "P", "E", "E", "D">>

LineHome == cHOME
LineResetTheta == cRESET_THETA
\* "SET_SPEED 300"
LineSpeed300 == cSET_SPEED \o <<" ", "3", "0", "0">>
\* "SET_SPEED -5"
LineSpeedNeg == cSET_SPEED \o <<" ", "-", "5">>
\* "SET_SPEED abc"
LineSpeedText == cSET_SPEED \o <<" ", "a", "b", "c">>
\* "SET_SPEED ": a blank and no value
LineSpeedEmpty == cSET_SPEED \o <<" ">>
\* "SET_SPEED": no blank
LineSpeedBare == cSET_SPEED
\* "SET_SPEEDX 100"
LineSpeedX == cSET_SPEED \o <<"X", " ", "1", "0", "0">>
\* "home"
LineLower == <<"h", "o", "m", "e">>
\* ".01,.0004;"
LineBatchA == <<".", "0", "1", ",", ".", "0", "0", "0", "4", ";">>
\* "0,1.5;0,1.4996;": rho above 1
LineBatchHigh ==
    <<"0", ",", "1", ".", "5", ";">>
      \o <<"0", ",", "1", ".", "4", "9", "9", "6", ";">>
\* ".0004,.0004;.0008;;x,y;": a pair without comma, an empty pair, text
LineBatchMalformed ==
    <<".", "0", "0", "0", "4", ",", ".", "0", "0", "0", "4", ";">>
      \o <<".", "0", "0", "0", "8", ";">>
      \o <<";">>
      \o <<"x", ",", "y", ";">>
\* twelve pairs ".0004,0;.0008,0;.0012,-.0004;.0016,0; ... .0048,0;", the
\* third with a rho below 0
LineBatch12 ==
    <<".", "0", "0", "0", "4", ",", "0", ";">>
      \o <<".", "0", "0", "0", "8", ",", "0", ";">>
      \o <<".", "0", "0", "1", "2", ",", "-", ".", "0", "0", "0", "4", ";">>
      \o <<".", "0", "0", "1", "6", ",", "0", ";">>
      \o <<".", "0", "0", "2", ",", "0", ";">>
      \o <<".", "0", "0", "2", "4", ",", "0", ";">>
      \o <<".", "0", "0", "2", "8", ",", "0", ";">>
      \o <<".", "0", "0", "3", "2", ",", "0", ";">>
      \o <<".", "0", "0", "3", "6", ",", "0", ";">>
      \o <<".", "0", "0", "4", ",", "0", ";">>
      \o <<".", "0", "0", "4", "4", ",", "0", ";">>
      \o <<".", "0", "0", "4", "8", ",", "0", ";">>

\* "0,0;6.2732,0;0,0;": out to 2 pi - 0.01 and back
LineThereAndBack ==
    <<"0", ",", "0", ";">>
      \o <<"6", ".", "2", "7", "3", "2", ",", "0", ";">>
      \o <<"0", ",", "0", ";">>
\* "0,0;1.5708,.5;": a quarter revolution, half way out
LineQuarter ==
    <<"0", ",", "0", ";">>
      \o <<"1", ".", "5", "7", "0", "8", ",", ".", "5", ";">>
\* "0,0;-3.1416,0;0,0;": differences of -M_PI and of +M_PI
LineHalfTurn ==
    <<"0", ",", "0", ";">>
      \o <<"-", "3", ".", "1", "4", "1", "6", ",", "0", ";">>
      \o <<"0", ",", "0", ";">>

Lines ==
    { LineHome, LineResetTheta, LineSpeed300, LineSpeedNeg, LineSpeedText,
      LineSpeedEmpty, LineSpeedBare, LineSpeedX, LineLower, LineBatchA,
      LineBatchHigh, LineBatchMalformed, LineBatch12 }

\* lines whose segments turn by half a revolution and more
PathLines ==
    { LineHome, LineResetTheta, LineSpeedNeg, LineLower, LineThereAndBack,
      LineQuarter, LineHalfTurn }

\* number of lines read in one run of the session "paths"
MaxPathLines == 2

\* number of lines read in one run of the session "brief"
MaxBriefLines == 2

\* the lines the peer may send in a session
Offered(s) == CASE s = "commands" -> Lines
                [] s = "brief" -> Lines
                [] s = "paths" -> PathLines

\* how many lines the peer sends in a session
LineLimit(s) == CASE s = "commands" -> MaxLines
                  [] s = "brief" -> MaxBriefLines
                  [] s = "paths" -> MaxPathLines

(***************************************************************************)
(* State                                                                   *)
(***************************************************************************)
VARIABLES
    session,             \* environment: which lines the peer sends
    pc,                  \* position of the single thread of control
    input,               \* the line read by the current loop() iteration
    out,                 \* tokens printed since that line was read
    linesRead,           \* lines read so far
    buffer,              \* float buffer[BUFFER_SIZE][2]
    bufferCount,
    batchComplete,
    currentTheta,
    currentRho,
    isFirstCoordinates,
    totalRevolutions,
    rotPos,              \* rotStepper.currentPosition()
    inOutPos,            \* inOutStepper.currentPosition()
    rotMaxSpeed,         \* rotStepper's maximum speed
    inOutMaxSpeed,       \* inOutStepper's maximum speed
    rotEnabled,          \* rotStepper's outputs
    inOutEnabled,        \* inOutStepper's outputs
    i,                   \* loop(): index of the waypoint being realized
    startTheta,          \* loop(): start of the next segment
    startRho,
    step,                \* interpolatePath(): loop counter
    numSteps,            \* interpolatePath()
    angleDiff,           \* interpolatePath()
    moveCount,           \* history: movePolar calls since the line was read
    lastRho,             \* history: the rho the last radial target came from
    realized,            \* history: per waypoint of the batch, what was done
    firstDue,            \* history: no waypoint realized since startup or
                         \* the last RESET_THETA
    homingFrom,          \* history: radial position when homing() was entered
    homingTravel         \* history: inward travel of the last homing pass

motionVars == <<currentTheta, currentRho, isFirstCoordinates, totalRevolutions>>
bufferVars == <<buffer, bufferCount, batchComplete>>
posVars == <<rotPos, inOutPos>>
speedVars == <<rotMaxSpeed, inOutMaxSpeed>>
enableVars == <<rotEnabled, inOutEnabled>>
loopVars == <<i, startTheta, startRho>>
interpVars == <<step, numSteps, angleDiff>>
moveHist == <<moveCount, lastRho, realized>>
homeHist == <<homingFrom, homingTravel>>

vars ==
    <<session, pc, input, out, linesRead, motionVars, bufferVars, posVars, speedVars,
      enableVars, loopVars, interpVars, moveHist, firstDue, homeHist>>

EmptyBuffer == [k \in 0 .. (BUFFER_SIZE - 1) |-> <<0, 0>>]

InitWith(s) ==
    /\ session = s
    /\ pc = "setup"
    /\ input = << >>
    /\ out = << >>
    /\ linesRead = 0
    /\ buffer = EmptyBuffer
    /\ bufferCount = 0
    /\ batchComplete = FALSE
    /\ currentTheta = 0
    /\ currentRho = 0
    /\ isFirstCoordinates = TRUE
    /\ totalRevolutions = 0
    /\ rotPos = 0
    /\ inOutPos = 0
    /\ rotMaxSpeed = DefaultMaxSpeed
    /\ inOutMaxSpeed = DefaultMaxSpeed
    /\ rotEnabled = TRUE
    /\ inOutEnabled = TRUE
    /\ i = 0
    /\ startTheta = 0
    /\ startRho = 0
    /\ step = 0
    /\ numSteps = 0
    /\ angleDiff = 0
    /\ moveCount = 0
    /\ lastRho = 0
    /\ realized = << >>
    /\ firstDue = TRUE
    /\ homingFrom = 0
    /\ homingTravel = 0

Init == InitWith("commands")

(***************************************************************************)
(* Kinematic transform and motion executor: movePolar()                    *)
(***************************************************************************)
\* twice rot_total_steps / gearRatio (2059.5), an integer
CouplingX2 == (2 * rot_total_steps * gearRatioDen) \div gearRatioNum

\* mutant: the test against 1.0 is missing
ClampRho_LowerOnly(rho) == IF rho < 0 THEN 0 ELSE rho

ClampRho(rho) ==
    IF rho < 0 THEN 0
    ELSE IF rho > UnitsPerOne THEN UnitsPerOne
    ELSE rho

\* mutant: the rotation target is rounded to the nearest step
RotSteps_Rounded(theta) == RoundDiv(theta * rot_total_steps, 2 * M_PI)

\* (long)(theta * (rot_total_steps / (2.0f * M_PI)))
RotSteps(theta) == TruncDiv(theta * rot_total_steps, 2 * M_PI)

\* mutant: the gear ratio is left out of the offset
OffsetSteps_NoGearRatio(theta) == TruncDiv(theta * rot_total_steps, 2 * M_PI)

\* (long)((theta / (2.0 * M_PI)) * (rot_total_steps / gearRatio))
OffsetSteps(theta) == TruncDiv(theta * CouplingX2, 4 * M_PI)

\* (long)(rho * inOut_total_steps) - offsetSteps, rho already clamped
InOutSteps(theta, rho) ==
    TruncDiv(rho * inOut_total_steps, UnitsPerOne) - OffsetSteps(theta)

\* movePolar(theta, rho): the blocking coordinated move reaches its targets
MovePolar(theta, rho) ==
    LET r == ClampRho(rho)
    IN /\ rotPos' = RotSteps(theta)
       /\ inOutPos' = InOutSteps(theta, r)
       /\ currentTheta' = theta
       /\ currentRho' = r
       /\ moveCount' = moveCount + 1
       /\ lastRho' = r

(***************************************************************************)
(* Interpolator: interpolatePath()                                         *)
(***************************************************************************)
\* max(1, (int)(distance / stepSize))
NumSteps(sTheta, sRho, eTheta, eRho, stepSize) ==
    LET d2 == (eTheta - sTheta) * (eTheta - sTheta)
                + (eRho - sRho) * (eRho - sRho)
    IN Max(1, ISqrt(d2 \div (stepSize * stepSize)))

RECURSIVE WhileAbovePi(_)
WhileAbovePi(d) == IF d > M_PI THEN WhileAbovePi(d - 2 * M_PI) ELSE d

RECURSIVE WhileBelowMinusPi(_)
WhileBelowMinusPi(d) ==
    IF d < -M_PI THEN WhileBelowMinusPi(d + 2 * M_PI) ELSE d

\* mutant: the loop that reduces a difference above M_PI is missing
ShortestAngle_NoUpperLoop(d) == WhileBelowMinusPi(d)

ShortestAngle(d) == WhileBelowMinusPi(WhileAbovePi(d))

\* start + t * diff with t = step / numSteps
Interpolate(start, diff, k, n) == start + TruncDiv(k * diff, n)

(***************************************************************************)
(* Dispatcher: loop()                                                      *)
(***************************************************************************)
IsIgnored(line) ==
    /\ line # cHOME
    /\ line # cRESET_THETA
    /\ ~startsWith(line, cSET_SPEED)
    /\ ~endsWith(line, <<";">>)

IsSetSpeed(line) == ~IsIgnored(line) /\ startsWith(line, cSET_SPEED)

IsHome(line) == ~IsIgnored(line) /\ ~IsSetSpeed(line) /\ line = cHOME

IsResetTheta(line) ==
    ~IsIgnored(line) /\ ~IsSetSpeed(line) /\ line = cRESET_THETA

IsBatch(line) ==
    /\ ~IsIgnored(line)
    /\ ~IsSetSpeed(line)
    /\ line # cHOME
    /\ line # cRESET_THETA

\* mutant: the loop does not test pairIndex against BUFFER_SIZE
RECURSIVE FillBuffer_Unbounded(_, _, _, _)
FillBuffer_Unbounded(line, buf, pairIndex, startIdx) ==
    LET endIdx == indexOf(line, ";", startIdx)
    IN IF endIdx = -1
       THEN [buffer |-> buf, pairIndex |-> pairIndex]
       ELSE LET pair == substring(line, startIdx, endIdx)
                commaIndex == indexOf(pair, ",", 0)
                theta == toFloat(substring(pair, 0, commaIndex))
                rho == toFloat(substringFrom(pair, commaIndex + 1))
            IN FillBuffer_Unbounded(line,
                                    [buf EXCEPT ![pairIndex] = <<theta, rho>>],
                                    pairIndex + 1, endIdx + 1)

\* the while loop that splits the line into pairs and stores them
RECURSIVE FillBuffer(_, _, _, _)
FillBuffer(line, buf, pairIndex, startIdx) ==
    IF pairIndex >= BUFFER_SIZE
    THEN [buffer |-> buf, pairIndex |-> pairIndex]
    ELSE LET endIdx == indexOf(line, ";", startIdx)
         IN IF endIdx = -1
            THEN [buffer |-> buf, pairIndex |-> pairIndex]
            ELSE LET pair == substring(line, startIdx, endIdx)
                     commaIndex == indexOf(pair, ",", 0)
                     theta == toFloat(substring(pair, 0, commaIndex))
                     rho == toFloat(substringFrom(pair, commaIndex + 1))
                 IN FillBuffer(line,
                               [buf EXCEPT ![pairIndex] = <<theta, rho>>],
                               pairIndex + 1, endIdx + 1)

\* Serial.readStringUntil('\n') at the top of loop()
Read(line) ==
    /\ pc = "idle"
    /\ UNCHANGED session
    /\ linesRead < LineLimit(session)
    /\ input' = line
    /\ linesRead' = linesRead + 1
    /\ moveCount' = 0
    /\ realized' = << >>

\* setup(): speeds, the startup ready marker, then homing()
Setup ==
    /\ pc = "setup"
    /\ rotMaxSpeed' = maxSpeed
    /\ inOutMaxSpeed' = maxSpeed
    /\ out' = <<"R", "HOMING">>
    /\ inOutEnabled' = TRUE
    /\ homingFrom' = inOutPos
    /\ pc' = "homing"
    /\ UNCHANGED <<session, firstDue>>
    /\ UNCHANGED <<input, linesRead, motionVars, bufferVars, posVars,
                   rotEnabled, loopVars, interpVars, moveHist, homingTravel>>

Ignored ==
    \E line \in Offered(session) :
        /\ Read(line)
        /\ IsIgnored(line)
        /\ out' = <<"IGNORED">>
        /\ pc' = "idle"
        /\ UNCHANGED firstDue
        /\ UNCHANGED <<motionVars, bufferVars, posVars, speedVars,
                       enableVars, loopVars, interpVars, lastRho, homeHist>>

\* mutant: the speed is stored before it is tested
SpeedReply_StoresFirst(line, old) ==
    LET spaceIndex == indexOf(line, " ", 0)
        speed == toFloat(substringFrom(line, spaceIndex + 1))
    IN IF spaceIndex # -1
       THEN IF speed > 0
            THEN [out |-> <<"SPEED_SET", "R">>, speed |-> speed]
            ELSE [out |-> <<"INVALID_SPEED">>, speed |-> speed]
       ELSE [out |-> <<"INVALID_COMMAND">>, speed |-> old]

\* mutant: the speed is not tested against 0
SpeedReply_NoSignTest(line, old) ==
    LET spaceIndex == indexOf(line, " ", 0)
        speed == toFloat(substringFrom(line, spaceIndex + 1))
    IN IF spaceIndex # -1
       THEN [out |-> <<"SPEED_SET", "R">>, speed |-> speed]
       ELSE [out |-> <<"INVALID_COMMAND">>, speed |-> old]

\* the reply to a SET_SPEED line and the maximum speed it leaves
SpeedReply(line, old) ==
    LET spaceIndex == indexOf(line, " ", 0)
        speed == toFloat(substringFrom(line, spaceIndex + 1))
    IN IF spaceIndex # -1
       THEN IF speed > 0
            THEN [out |-> <<"SPEED_SET", "R">>, speed |-> speed]
            ELSE [out |-> <<"INVALID_SPEED">>, speed |-> old]
       ELSE [out |-> <<"INVALID_COMMAND">>, speed |-> old]

SetSpeed ==
    \E line \in Offered(session) :
        /\ Read(line)
        /\ IsSetSpeed(line)
        /\ out' = SpeedReply(line, rotMaxSpeed).out
        /\ rotMaxSpeed' = SpeedReply(line, rotMaxSpeed).speed
        /\ inOutMaxSpeed' = SpeedReply(line, inOutMaxSpeed).speed
        /\ pc' = "idle"
        /\ UNCHANGED firstDue
        /\ UNCHANGED <<motionVars, bufferVars, posVars, enableVars,
                       loopVars, interpVars, lastRho, homeHist>>

\* HOME: homing() is entered
Home ==
    \E line \in Offered(session) :
        /\ Read(line)
        /\ IsHome(line)
        /\ out' = <<"HOMING">>
        /\ inOutEnabled' = TRUE
        /\ homingFrom' = inOutPos
        /\ pc' = "homing"
        /\ UNCHANGED firstDue
        /\ UNCHANGED <<motionVars, bufferVars, posVars, speedVars,
                       rotEnabled, loopVars, interpVars, lastRho,
                       homingTravel>>

\* homing(): the position test that ends the jog
HomingReached(pos) == 10 * pos <= -(11 * inOut_total_steps)

\* mutant: runSpeed() never makes a step
HomingPoll_Stalled ==
    /\ pc = "homing"
    /\ inOutPos' = inOutPos
    /\ pc' = IF HomingReached(inOutPos') THEN "homed" ELSE "homing"
    /\ UNCHANGED <<session, firstDue>>
    /\ UNCHANGED <<input, out, linesRead, motionVars, bufferVars, rotPos,
                   speedVars, enableVars, loopVars, interpVars, moveHist,
                   homeHist>>

\* homing(): one cycle of the jog, runSpeed() and the position test;
\* runSpeed() makes a step inward when one is due
HomingPoll ==
    /\ pc = "homing"
    /\ \E due \in BOOLEAN :
          /\ inOutPos' = IF due THEN inOutPos - 1 ELSE inOutPos
          /\ pc' = IF HomingReached(inOutPos') THEN "homed" ELSE "homing"
    /\ UNCHANGED <<session, firstDue>>
    /\ UNCHANGED <<input, out, linesRead, motionVars, bufferVars, rotPos,
                   speedVars, enableVars, loopVars, interpVars, moveHist,
                   homeHist>>

\* mutant: homing() also marks the next waypoint as the first
HomingFinish_MarksFirst ==
    /\ pc = "homed"
    /\ homingTravel' = homingFrom - inOutPos
    /\ inOutPos' = 0
    /\ rotPos' = 0
    /\ currentTheta' = 0
    /\ currentRho' = 0
    /\ isFirstCoordinates' = TRUE
    /\ inOutEnabled' = FALSE
    /\ out' = Append(out, "HOMED")
    /\ pc' = "idle"
    /\ UNCHANGED <<session, firstDue>>
    /\ UNCHANGED <<input, linesRead, totalRevolutions, bufferVars, speedVars,
                   rotEnabled, loopVars, interpVars, moveHist, homingFrom>>

\* homing(): after the jog, the references are zeroed; homing() returns
\* to setup() or to loop(), which returns
HomingFinish ==
    /\ pc = "homed"
    /\ homingTravel' = homingFrom - inOutPos
    /\ inOutPos' = 0
    /\ rotPos' = 0
    /\ currentTheta' = 0
    /\ currentRho' = 0
    /\ inOutEnabled' = FALSE
    /\ out' = Append(out, "HOMED")
    /\ pc' = "idle"
    /\ UNCHANGED <<session, firstDue>>
    /\ UNCHANGED <<input, linesRead, isFirstCoordinates, totalRevolutions,
                   bufferVars, speedVars, rotEnabled, loopVars, interpVars,
                   moveHist, homingFrom>>

\* mutant: the radial reference is zeroed like the rotation reference
ResetInOutPos_Zeroed(rho) == 0

\* mutant: the radial reference is rounded to the nearest step
ResetInOutPos_Rounded(rho) == RoundDiv(rho * inOut_total_steps, UnitsPerOne)

\* resetTheta(): the radial reference, (long)(currentRho * inOut_total_steps)
ResetInOutPos(rho) == TruncDiv(rho * inOut_total_steps, UnitsPerOne)

\* RESET_THETA: resetTheta(), then the second THETA_RESET and the marker
ResetTheta ==
    \E line \in Offered(session) :
        /\ Read(line)
        /\ IsResetTheta(line)
        /\ currentTheta' = 0
        /\ totalRevolutions' = 0
        /\ rotPos' = 0
        /\ inOutPos' = ResetInOutPos(currentRho)
        /\ isFirstCoordinates' = TRUE
        /\ firstDue' = TRUE
        /\ out' = <<"THETA_RESET", "THETA_RESET", "R">>
        /\ pc' = "idle"
        /\ UNCHANGED <<currentRho, bufferVars, speedVars, enableVars,
                       loopVars, interpVars, lastRho, homeHist>>

\* a batch line: the pairs are stored, then the buffer is processed in the
\* same loop() iteration when it holds a pair
BatchFill ==
    \E line \in Offered(session) :
        /\ Read(line)
        /\ IsBatch(line)
        /\ LET filled == FillBuffer(line, buffer, 0, 0)
           IN /\ buffer' = IF batchComplete THEN buffer ELSE filled.buffer
              /\ bufferCount' =
                    IF batchComplete THEN bufferCount ELSE filled.pairIndex
        /\ batchComplete' = TRUE
        /\ out' = << >>
        /\ IF bufferCount' > 0
           THEN /\ pc' = "batch"
                /\ rotEnabled' = TRUE
                /\ inOutEnabled' = TRUE
                /\ startTheta' = currentTheta
                /\ startRho' = currentRho
                /\ i' = 0
           ELSE /\ pc' = "idle"
                /\ UNCHANGED <<enableVars, loopVars>>
        /\ UNCHANGED <<motionVars, posVars, speedVars, interpVars, lastRho,
                       firstDue, homeHist>>

\* what the history keeps of one realized waypoint
Done(dest, how, theta, rho) ==
    [dest |-> dest, how |-> how, theta |-> theta, rho |-> rho]

\* the for loop's body when isFirstCoordinates is set
BatchDirect ==
    /\ pc = "batch"
    /\ i < bufferCount
    /\ isFirstCoordinates
    /\ MovePolar(buffer[0][1], buffer[0][2])
    /\ isFirstCoordinates' = FALSE
    /\ realized' =
          Append(realized,
                 Done(buffer[0], "direct", currentTheta', currentRho'))
    /\ startTheta' = buffer[i][1]
    /\ startRho' = buffer[i][2]
    /\ i' = i + 1
    /\ firstDue' = FALSE
    /\ UNCHANGED session
    /\ UNCHANGED <<pc, input, out, linesRead, totalRevolutions, bufferVars,
                   speedVars, enableVars, interpVars, homeHist>>

\* the for loop's body otherwise: interpolatePath() is entered
InterpBegin ==
    /\ pc = "batch"
    /\ i < bufferCount
    /\ ~isFirstCoordinates
    /\ numSteps' = NumSteps(startTheta, startRho, buffer[i][1], buffer[i][2],
                            interpolationResolution)
    /\ angleDiff' = ShortestAngle(buffer[i][1] - startTheta)
    /\ step' = 0
    /\ pc' = "interp"
    /\ UNCHANGED <<session, firstDue>>
    /\ UNCHANGED <<input, out, linesRead, motionVars, bufferVars, posVars,
                   speedVars, enableVars, loopVars, moveHist, homeHist>>

\* interpolatePath(): one pass of its for loop
InterpStep ==
    /\ pc = "interp"
    /\ step <= numSteps
    /\ MovePolar(Interpolate(startTheta, angleDiff, step, numSteps),
                 Interpolate(startRho, buffer[i][2] - startRho, step,
                             numSteps))
    /\ step' = step + 1
    /\ UNCHANGED <<session, firstDue>>
    /\ UNCHANGED <<pc, input, out, linesRead, isFirstCoordinates,
                   totalRevolutions, bufferVars, speedVars, enableVars,
                   loopVars, numSteps, angleDiff, realized, homeHist>>

\* interpolatePath() returns; the next segment starts at this waypoint
InterpEnd ==
    /\ pc = "interp"
    /\ step > numSteps
    /\ realized' =
          Append(realized,
                 Done(buffer[i], "interp", currentTheta, currentRho))
    /\ startTheta' = buffer[i][1]
    /\ startRho' = buffer[i][2]
    /\ i' = i + 1
    /\ step' = 0
    /\ numSteps' = 0
    /\ angleDiff' = 0
    /\ pc' = "batch"
    /\ firstDue' = FALSE
    /\ UNCHANGED session
    /\ UNCHANGED <<input, out, linesRead, motionVars, bufferVars, posVars,
                   speedVars, enableVars, moveCount, lastRho, homeHist>>

\* mutant: the batch flag is not reset
BatchEnd_KeepsFlag ==
    /\ pc = "batch"
    /\ i >= bufferCount
    /\ rotEnabled' = FALSE
    /\ inOutEnabled' = FALSE
    /\ bufferCount' = 0
    /\ out' = Append(out, "R")
    /\ i' = 0
    /\ startTheta' = 0
    /\ startRho' = 0
    /\ pc' = "idle"
    /\ UNCHANGED <<session, firstDue>>
    /\ UNCHANGED <<input, linesRead, motionVars, buffer, batchComplete,
                   posVars, speedVars, interpVars, moveHist, homeHist>>

\* mutant: the marker is not printed
BatchEnd_NoMarker ==
    /\ pc = "batch"
    /\ i >= bufferCount
    /\ rotEnabled' = FALSE
    /\ inOutEnabled' = FALSE
    /\ batchComplete' = FALSE
    /\ bufferCount' = 0
    /\ i' = 0
    /\ startTheta' = 0
    /\ startRho' = 0
    /\ pc' = "idle"
    /\ UNCHANGED <<session, firstDue>>
    /\ UNCHANGED <<input, out, linesRead, motionVars, buffer, posVars,
                   speedVars, interpVars, moveHist, homeHist>>

\* after the for loop: the buffer is cleared and the marker is printed
BatchEnd ==
    /\ pc = "batch"
    /\ i >= bufferCount
    /\ rotEnabled' = FALSE
    /\ inOutEnabled' = FALSE
    /\ batchComplete' = FALSE
    /\ bufferCount' = 0
    /\ out' = Append(out, "R")
    /\ i' = 0
    /\ startTheta' = 0
    /\ startRho' = 0
    /\ pc' = "idle"
    /\ UNCHANGED <<session, firstDue>>
    /\ UNCHANGED <<input, linesRead, motionVars, buffer, posVars, speedVars,
                   interpVars, moveHist, homeHist>>

\* A loop() iteration that finds no line available tests batchComplete and
\* bufferCount and changes nothing: a filled buffer is always processed in
\* the iteration that filled it.
Next ==
    \/ Setup
    \/ Ignored
    \/ SetSpeed
    \/ Home
    \/ HomingPoll
    \/ HomingFinish
    \/ ResetTheta
    \/ BatchFill
    \/ BatchDirect
    \/ InterpBegin
    \/ InterpStep
    \/ InterpEnd
    \/ BatchEnd

Spec == Init /\ [][Next]_vars

\* the steps the firmware makes by itself, once a line has been read
Firmware ==
    \/ Setup
    \/ HomingPoll
    \/ HomingFinish
    \/ BatchDirect
    \/ InterpBegin
    \/ InterpStep
    \/ InterpEnd
    \/ BatchEnd

\* setup() and loop() keep running, every blocking move completes, and the
\* homing jog eventually makes a step: a Firmware step that changes the
\* state is taken when one stays possible; the peer sends the lines of the
\* session "brief"
InitBrief == InitWith("brief")

FairSpec == InitBrief /\ [][Next]_vars /\ WF_vars(Firmware)

\* the same firmware, the peer sending the lines of the session "paths"
InitPaths == InitWith("paths")

SpecPaths == InitPaths /\ [][Next]_vars

(***************************************************************************)
(* movePolar() on its own: from a waypoint (theta, rho) just realized, the *)
(* same rho is realized a whole turn further on or further back.           *)
(***************************************************************************)
\* the thetas drawn are -MaxKinTheta .. MaxKinTheta units
MaxKinTheta == 40
\* whole turns made in one run
MaxTurns == 3

KinRhos == {0, UnitsPerOne \div 2, UnitsPerOne}

InitKinematics ==
    /\ session = "kinematics"
    /\ pc = "turning"
    /\ input = << >>
    /\ out = << >>
    /\ linesRead = 0
    /\ buffer = EmptyBuffer
    /\ bufferCount = 0
    /\ batchComplete = FALSE
    /\ currentTheta \in (-MaxKinTheta) .. MaxKinTheta
    /\ currentRho \in KinRhos
    /\ isFirstCoordinates = FALSE
    /\ totalRevolutions = 0
    /\ rotPos = RotSteps(currentTheta)
    /\ inOutPos = InOutSteps(currentTheta, currentRho)
    /\ rotMaxSpeed = maxSpeed
    /\ inOutMaxSpeed = maxSpeed
    /\ rotEnabled = TRUE
    /\ inOutEnabled = TRUE
    /\ i = 0
    /\ startTheta = 0
    /\ startRho = 0
    /\ step = 0
    /\ numSteps = 0
    /\ angleDiff = 0
    /\ moveCount = 0
    /\ lastRho = currentRho
    /\ realized = << >>
    /\ firstDue = FALSE
    /\ homingFrom = 0
    /\ homingTravel = 0

\* movePolar(currentTheta + turns * 2 pi, currentRho)
Turn(turns) ==
    /\ pc = "turning"
    /\ moveCount < MaxTurns
    /\ MovePolar(currentTheta + turns * (2 * M_PI), currentRho)
    /\ UNCHANGED <<session, pc, input, out, linesRead, isFirstCoordinates,
                   totalRevolutions, bufferVars, speedVars, enableVars,
                   loopVars, interpVars, realized, firstDue, homeHist>>

TurnForward == Turn(1)

TurnBackward == Turn(-1)

NextKinematics ==
    \/ TurnForward
    \/ TurnBackward

SpecKinematics == InitKinematics /\ [][NextKinematics]_vars

(***************************************************************************)
(* Vocabulary of the properties                                            *)
(***************************************************************************)
Rejections == {<<"IGNORED">>, <<"INVALID_SPEED">>, <<"INVALID_COMMAND">>}

\* how many ready markers a sequence of tokens holds
Markers(tokens) == Cardinality({k \in 1 .. Len(tokens) : tokens[k] = "R"})

\* the texts between the semicolons of a line, in order
RECURSIVE PairTexts(_, _)
PairTexts(line, from) ==
    LET e == indexOf(line, ";", from)
    IN IF e = -1 THEN << >>
       ELSE <<SubSeq(line, from + 1, e)>> \o PairTexts(line, e + 1)

\* a decimal number and nothing else: [sign] digits [. digits]
IsNumber(s) ==
    LET p1 == IF Len(s) > 0 /\ s[1] \in {"+", "-"} THEN 2 ELSE 1
        p2 == DigitsEnd(s, p1)
        hasDot == p2 <= Len(s) /\ s[p2] = "."
        p3 == IF hasDot THEN DigitsEnd(s, p2 + 1) ELSE p2
        nDigits == (p2 - p1) + (IF hasDot THEN p3 - (p2 + 1) ELSE 0)
    IN p3 = Len(s) + 1 /\ nDigits > 0

\* theta,rho with both parts numbers
WellFormedPair(p) ==
    LET c == indexOf(p, ",", 0)
    IN /\ c # -1
       /\ IsNumber(SubSeq(p, 1, c))
       /\ IsNumber(SubSeq(p, c + 2, Len(p)))

\* the waypoint a well-formed pair denotes
PairValue(p) ==
    LET c == indexOf(p, ",", 0)
    IN <<toFloat(SubSeq(p, 1, c)), toFloat(SubSeq(p, c + 2, Len(p)))>>

AllWellFormed(line) ==
    \A k \in 1 .. Len(PairTexts(line, 0)) :
        WellFormedPair(PairTexts(line, 0)[k])

WellFormedCount(line) ==
    Cardinality({k \in 1 .. Len(PairTexts(line, 0)) :
                    WellFormedPair(PairTexts(line, 0)[k])})

\* a line has been read and its handling is over
Answered == pc = "idle" /\ linesRead > 0

\* this step reads a line
Reads == linesRead' # linesRead

(***************************************************************************)
(* C1.  Every HOME line is answered with HOMING, then HOMED, then exactly  *)
(* one ready marker, before the next line is read.                         *)
(* The firmware prints HOMING and HOMED and returns: no marker follows.    *)
(***************************************************************************)
C1_HomeAnsweredWithMarker ==
    (Answered /\ input = cHOME) => out = <<"HOMING", "HOMED", "R">>

\* what the firmware does answer
C1_HomeAnswerSeen ==
    Answered /\ input = cHOME /\ out = <<"HOMING", "HOMED">>

(***************************************************************************)
(* C2.  For every batch line accepted, exactly one ready marker is         *)
(* emitted, only after the last move of the batch, and no other line is    *)
(* read between reading the batch line and emitting the marker.            *)
(***************************************************************************)
C2_BatchState ==
    /\ pc \in {"batch", "interp"} => (IsBatch(input) /\ out = << >>)
    /\ (Answered /\ IsBatch(input)) =>
          /\ out = <<"R">>
          /\ Len(realized) >= 1
          /\ moveCount >= Len(realized)

C2_BatchStep ==
    \* a line is read only when the previous one has been answered
    /\ Reads => (pc = "idle" /\ (IsBatch(input) => Markers(out) = 1))
    \* a move of a batch precedes its marker
    /\ (moveCount' # moveCount /\ ~Reads) => (out = << >> /\ out' = << >>)
    \* the marker of a batch is printed once, when its last waypoint is done
    /\ (IsBatch(input) /\ ~Reads /\ out' # out) =>
          /\ out = << >>
          /\ out' = <<"R">>
          /\ i = bufferCount
          /\ Len(realized) = bufferCount
          /\ pc' = "idle"

C2_BatchRequestResponse == [](C2_BatchState) /\ [][C2_BatchStep]_vars

C2_BatchAnswered ==
    Answered /\ IsBatch(input) /\ out = <<"R">> /\ Len(realized) > 1
      /\ moveCount > Len(realized)

(***************************************************************************)
(* C3.  For a batch line of n well-formed pairs the waypoints realized     *)
(* are the first min(n, BUFFER_SIZE) pairs of the line in arrival order,   *)
(* one completed before the next begins (waypoint i is in progress only    *)
(* when i waypoints are done); each is realized at its rho clamped and its *)
(* theta up to whole turns; later pairs are never executed and bufferCount *)
(* never exceeds BUFFER_SIZE.                                              *)
(***************************************************************************)
C3_RealizedAsGiven(k) ==
    LET p == PairTexts(input, 0)[k]
        r == realized[k]
    IN /\ k <= BUFFER_SIZE
       /\ r.dest = PairValue(p)
       /\ r.rho = ClampRho(PairValue(p)[2])
       /\ (r.theta - PairValue(p)[1]) % (2 * M_PI) = 0

C3_FirstPairsInOrder ==
    /\ bufferCount <= BUFFER_SIZE
    /\ pc \in {"batch", "interp"} => (Len(realized) = i /\ i <= bufferCount)
    /\ (pc \in {"batch", "idle"} /\ IsBatch(input) /\ AllWellFormed(input)) =>
          /\ Len(realized) <= Len(PairTexts(input, 0))
          /\ \A k \in 1 .. Len(realized) : C3_RealizedAsGiven(k)
    /\ (Answered /\ IsBatch(input) /\ AllWellFormed(input)) =>
          Len(realized) = Min(Len(PairTexts(input, 0)), BUFFER_SIZE)

\* the line of twelve pairs has been answered after ten waypoints
C3_TwelvePairsAnswered ==
    /\ Answered
    /\ input = LineBatch12
    /\ Len(PairTexts(input, 0)) = 12
    /\ Len(realized) = BUFFER_SIZE
    /\ out = <<"R">>

(***************************************************************************)
(* C4.  In every homing pass the radial axis travels inward by at least    *)
(* 110% of inOut_total_steps from where it was when homing began, before   *)
(* the references are zeroed.                                              *)
(* The jog stops on the absolute position -1.1 * inOut_total_steps, so a   *)
(* pass that begins at a negative position travels less.                   *)
(***************************************************************************)
C4_HomingTravelsFullMargin ==
    pc = "idle" => 10 * homingTravel >= 11 * inOut_total_steps

\* a homing pass that began below 0 has ended
C4_HomedFromNegative ==
    Answered /\ input = cHOME /\ homingFrom < 0

(***************************************************************************)
(* C5.  A malformed pair inside a batch line (no comma, empty, or text     *)
(* that is no number) is dropped: it is not stored in the buffer and       *)
(* causes no move.                                                         *)
(* The firmware stores every semicolon-terminated text as a waypoint,      *)
(* toFloat giving 0 for what it cannot read, and moves to it.              *)
(***************************************************************************)
C5_MalformedPairsDropped ==
    /\ (pc = "batch" /\ IsBatch(input)) =>
          bufferCount <= WellFormedCount(input)
    /\ (Answered /\ IsBatch(input)) =>
          /\ Len(realized) <= WellFormedCount(input)
          /\ \A k \in 1 .. Len(realized) :
                \E j \in 1 .. Len(PairTexts(input, 0)) :
                    /\ WellFormedPair(PairTexts(input, 0)[j])
                    /\ realized[k].dest = PairValue(PairTexts(input, 0)[j])

\* the line with three malformed pairs has been answered
C5_MalformedAnswered ==
    Answered /\ input = LineBatchMalformed /\ Len(realized) = 4

(***************************************************************************)
(* C6.  A line answered with IGNORED, INVALID_SPEED or INVALID_COMMAND     *)
(* mutates nothing: Motion State, the buffer and its flags, both stepper   *)
(* positions and both maximum speeds are unchanged and no motion is        *)
(* issued.                                                                 *)
(***************************************************************************)
C6_RejectionStep ==
    (Reads /\ out' \in Rejections) =>
        /\ UNCHANGED <<motionVars, bufferVars, posVars, speedVars>>
        /\ UNCHANGED <<enableVars, lastRho>>
        /\ moveCount' = 0
        /\ pc' = "idle"

C6_RejectionMutatesNothing == [][C6_RejectionStep]_vars

\* a rejection answered in a state that earlier commands have changed
C6_RejectedAfterChanges ==
    /\ Answered
    /\ out \in Rejections
    /\ currentTheta # 0
    /\ rotMaxSpeed # maxSpeed

(***************************************************************************)
(* C7.  For a SET_SPEED line: if its value is absent or non-positive the   *)
(* line is rejected with INVALID_SPEED and the maximum speed is unchanged; *)
(* otherwise both maximum speeds are set to the value and the output is    *)
(* SPEED_SET followed by exactly one ready marker.                         *)
(***************************************************************************)
\* the text after the first blank of a line, << >> when there is none
SpeedText(line) ==
    LET sp == indexOf(line, " ", 0)
    IN IF sp = -1 THEN << >> ELSE SubSeq(line, sp + 2, Len(line))

C7_Accepted(line) ==
    /\ out' = <<"SPEED_SET", "R">>
    /\ rotMaxSpeed' = toFloat(SpeedText(line))
    /\ inOutMaxSpeed' = toFloat(SpeedText(line))

\* as claimed: the line SET_SPEED without a value gets INVALID_SPEED
C7_OriginalStep ==
    (Reads /\ (input' = cSET_SPEED \/ startsWith(input', cSET_SPEED \o <<" ">>)))
      => IF toFloat(SpeedText(input')) <= 0
         THEN out' = <<"INVALID_SPEED">> /\ UNCHANGED speedVars
         ELSE C7_Accepted(input')

C7_Original == [][C7_OriginalStep]_vars

\* as amended: a line without a blank gets INVALID_COMMAND
C7_AmendedStep ==
    (Reads /\ startsWith(input', cSET_SPEED))
      => IF indexOf(input', " ", 0) = -1
         THEN out' = <<"INVALID_COMMAND">> /\ UNCHANGED speedVars
         ELSE IF toFloat(SpeedText(input')) <= 0
         THEN out' = <<"INVALID_SPEED">> /\ UNCHANGED speedVars
         ELSE C7_Accepted(input')

C7_SetSpeedReplies == [][C7_AmendedStep]_vars

\* each of the three replies has been given, the speed once changed
C7_SpeedSetSeen ==
    /\ Answered
    /\ input = LineSpeed300
    /\ out = <<"SPEED_SET", "R">>
    /\ rotMaxSpeed = 300 * UnitsPerOne
    /\ inOutMaxSpeed = 300 * UnitsPerOne

(***************************************************************************)
(* C8.  Command matching is exact: a line that is not exactly HOME, not    *)
(* exactly RESET_THETA, not of the form SET_SPEED <value> and not a        *)
(* semicolon-terminated batch is answered with IGNORED; a line that merely *)
(* begins with SET_SPEED never changes the maximum speed.                  *)
(* The firmware tests startsWith("SET_SPEED"): SET_SPEEDX 100 sets the     *)
(* speed to 100.                                                           *)
(***************************************************************************)
\* a SET_SPEED line: the keyword alone, or the keyword, a blank and its
\* value (C7 states the replies to these)
IsSpeedForm(line) ==
    line = cSET_SPEED \/ startsWith(line, cSET_SPEED \o <<" ">>)

C8_ExactStep ==
    (Reads /\ input' # cHOME /\ input' # cRESET_THETA /\ ~IsSpeedForm(input')
       /\ ~endsWith(input', <<";">>))
      => (out' = <<"IGNORED">> /\ UNCHANGED speedVars)

C8_ExactMatching == [][C8_ExactStep]_vars

\* SET_SPEEDX 100 has been answered and the speed is 100
C8_PrefixAccepted ==
    /\ Answered
    /\ input = LineSpeedX
    /\ out = <<"SPEED_SET", "R">>
    /\ rotMaxSpeed = 100 * UnitsPerOne

(***************************************************************************)
(* C9.  RESET_THETA, from any reachable state, issues no motion, sets      *)
(* currentTheta and totalRevolutions to 0, the rotation reference to 0 and *)
(* the radial reference to round(currentRho * inOut_total_steps), leaves   *)
(* currentRho unchanged, marks the next waypoint as first, and prints      *)
(* THETA_RESET twice and then exactly one ready marker.                    *)
(***************************************************************************)
C9_ResetEffect(radial) ==
    /\ moveCount' = 0
    /\ currentTheta' = 0
    /\ totalRevolutions' = 0
    /\ rotPos' = 0
    /\ inOutPos' = radial
    /\ currentRho' = currentRho
    /\ isFirstCoordinates'
    /\ out' = <<"THETA_RESET", "THETA_RESET", "R">>
    /\ pc' = "idle"
    /\ UNCHANGED <<bufferVars, speedVars>>

\* as claimed: the radial reference is rounded to the nearest step
C9_OriginalStep ==
    (Reads /\ input' = cRESET_THETA)
      => C9_ResetEffect(RoundDiv(currentRho * inOut_total_steps, UnitsPerOne))

C9_Original == [][C9_OriginalStep]_vars

\* as amended: the radial reference is truncated toward zero
C9_AmendedStep ==
    (Reads /\ input' = cRESET_THETA)
      => C9_ResetEffect(TruncDiv(currentRho * inOut_total_steps, UnitsPerOne))

C9_ResetThetaEffect == [][C9_AmendedStep]_vars

\* RESET_THETA answered where rounding and truncation differ
C9_ResetWhereRoundingDiffers ==
    /\ Answered
    /\ input = cRESET_THETA
    /\ currentRho > 0
    /\ inOutPos = TruncDiv(currentRho * inOut_total_steps, UnitsPerOne)
    /\ inOutPos # RoundDiv(currentRho * inOut_total_steps, UnitsPerOne)

NormHalfOpen(d) == M_PI - ((M_PI - d) % (2 * M_PI))

\* the representative of d in [-pi, pi] that keeps the sign of d at the ends
NormSymmetric(d) == IF d >= 0 THEN NormHalfOpen(d) ELSE -NormHalfOpen(-d)

\* a segment is being interpolated and its last move has been made
SegmentDone == pc = "interp" /\ step > numSteps

C11_Segment(norm) ==
    pc = "interp" =>
        /\ angleDiff = norm
        /\ -M_PI <= angleDiff /\ angleDiff <= M_PI
        /\ step > numSteps => currentTheta - startTheta = angleDiff

ThereAndBack(k) ==
    /\ realized[k + 1].how = "interp"
    /\ realized[k + 2].how = "interp"
    /\ realized[k + 2].dest = realized[k].dest

C12_RoundTrip ==
    \A k \in 1 .. (Len(realized) - 2) :
        ThereAndBack(k) =>
            /\ realized[k + 2].theta = realized[k].dest[1]
            /\ realized[k + 2].rho = ClampRho(realized[k].dest[2])

\* the round trip over 2 pi - 0.01 has ended a whole turn away from A
C12_ReturnedElsewhere ==
    /\ Answered
    /\ input = LineThereAndBack
    /\ Len(realized) = 3
    /\ ThereAndBack(1)
    /\ realized[1].theta = realized[1].dest[1]
    /\ currentTheta = realized[1].dest[1] + 2 * M_PI

(***************************************************************************)
(* C13.  The interpolator uses segmentCount = max(1, ceil(d / resolution)) *)
(* for the Euclidean distance d between start and end, realizes the        *)
(* waypoints of step 0 .. segmentCount, and so no segment is longer than   *)
(* the resolution when d exceeds it.                                       *)
(* The firmware converts d / stepSize with (int), which rounds down: a     *)
(* distance of 1.41 resolutions is covered by one segment.                 *)
(***************************************************************************)
\* the square of the distance of the segment being interpolated
SegmentD2 ==
    (buffer[i][1] - startTheta) * (buffer[i][1] - startTheta)
      + (buffer[i][2] - startRho) * (buffer[i][2] - startRho)

\* the least n with n * n >= x
CeilSqrt(x) == IF ISqrt(x) * ISqrt(x) = x THEN ISqrt(x) ELSE ISqrt(x) + 1

C13_SegmentCount ==
    pc = "interp" =>
        LET res2 == interpolationResolution * interpolationResolution
        IN /\ numSteps = Max(1, CeilSqrt((SegmentD2 + res2 - 1) \div res2))
           /\ step <= numSteps + 1
           /\ SegmentD2 > res2 => SegmentD2 <= numSteps * numSteps * res2

\* a segment 1.41 resolutions long is being realized in one piece
C13_LongSegment ==
    /\ SegmentDone
    /\ SegmentD2 = 2 * interpolationResolution * interpolationResolution
    /\ numSteps = 1
    /\ step = 2

(***************************************************************************)
(* C14.  The coupling offset subtracted from the radial step target at     *)
(* theta + 2 pi differs from the offset at theta by one coupling unit,     *)
(* rot_total_steps / gearRatio = 2059.5 steps.  As claimed the difference  *)
(* is exactly the unit; as amended it is the unit to within the truncation *)
(* of both offsets to whole steps: 2059 or 2060 steps, and 2058 or 2059    *)
(* when theta < 0 < theta + 2 pi.                                          *)
(***************************************************************************)
\* this step realizes the same rho one turn away; lo is the lower theta
WholeTurn(lo) ==
    /\ moveCount' = moveCount + 1
    /\ currentRho' = currentRho
    /\ lo = Min(currentTheta, currentTheta')
    /\ Max(currentTheta, currentTheta') = lo + 2 * M_PI

\* what the turn from lo to lo + 2 pi takes off the radial step target
OffsetGrowth(lo) ==
    IF currentTheta' > currentTheta THEN inOutPos - inOutPos'
    ELSE inOutPos' - inOutPos

C14_OriginalStep ==
    \A lo \in {Min(currentTheta, currentTheta')} :
        WholeTurn(lo) =>
            /\ OffsetGrowth(lo) = OffsetSteps(lo + 2 * M_PI) - OffsetSteps(lo)
            /\ 2 * OffsetGrowth(lo) = CouplingX2

C14_Original == [][C14_OriginalStep]_vars

C14_AmendedStep ==
    \A lo \in {Min(currentTheta, currentTheta')} :
        WholeTurn(lo) =>
            /\ OffsetGrowth(lo) = OffsetSteps(lo + 2 * M_PI) - OffsetSteps(lo)
            /\ IF lo < 0 /\ lo + 2 * M_PI > 0
               THEN 2 * OffsetGrowth(lo) - CouplingX2 \in {-3, -1}
               ELSE 2 * OffsetGrowth(lo) - CouplingX2 \in {-1, 1}

C14_OffsetPerTurn == [][C14_AmendedStep]_vars

\* a turn across theta = 0 has changed the offset by 2058 steps
C14_TurnAcrossZero ==
    /\ pc = "turning"
    /\ moveCount = 1
    /\ currentTheta > 0
    /\ currentTheta < 2 * M_PI
    /\ 2 * (OffsetSteps(currentTheta) - OffsetSteps(currentTheta - 2 * M_PI))
         = CouplingX2 - 3
    /\ inOutPos = InOutSteps(currentTheta, currentRho)

(***************************************************************************)
(* C15.  For every waypoint (theta, rho) passed to movePolar() the step    *)
(* targets are rotationSteps = conv(theta * rot_total_steps / (2 pi)) and  *)
(* radialSteps = conv(clamp(rho) * inOut_total_steps)                      *)
(*                 - conv((theta / (2 pi)) * rot_total_steps / gearRatio). *)
(* As claimed conv rounds to the nearest integer, and the waypoint (a      *)
(* quarter revolution, 0.5) gives 3433, 515 and 1806; as amended conv      *)
(* truncates toward zero, and the waypoint gives 3432, 514 and 1807.       *)
(***************************************************************************)
\* the targets of the last movePolar() call, for a conversion given by its
\* results on the three products
C15_Targets(rot, radial, offset) ==
    moveCount > 0 =>
        /\ rotPos = rot
        /\ inOutPos = radial - offset

C15_Original ==
    C15_Targets(RoundDiv(currentTheta * rot_total_steps, 2 * M_PI),
                RoundDiv(currentRho * inOut_total_steps, UnitsPerOne),
                RoundDiv(currentTheta * CouplingX2, 4 * M_PI))

C15_StepTargets ==
    C15_Targets(TruncDiv(currentTheta * rot_total_steps, 2 * M_PI),
                TruncDiv(currentRho * inOut_total_steps, UnitsPerOne),
                TruncDiv(currentTheta * CouplingX2, 4 * M_PI))

\* the batch 0,0;1.5708,.5; has been realized from the homed state
C15_QuarterTurnRealized ==
    /\ Answered
    /\ linesRead = 1
    /\ input = LineQuarter
    /\ Len(realized) = 2
    /\ currentTheta = 3927
    /\ currentRho = 1250
    /\ rotPos = 3432
    /\ OffsetSteps(currentTheta) = 514
    /\ inOutPos = 1807

(***************************************************************************)
(* C16.  A waypoint is realized as a single direct move, without           *)
(* interpolation, if and only if it is the first waypoint executed since   *)
(* startup or since the most recent RESET_THETA; every other waypoint, the *)
(* first one after a HOME line included, is realized through the           *)
(* interpolator; the first-waypoint flag is false after any batch.         *)
(***************************************************************************)
\* this step completes a waypoint
Completes == Len(realized') = Len(realized) + 1

C16_Step ==
    /\ Completes =>
          LET w == realized'[Len(realized')]
          IN /\ w.how = "direct" <=> firstDue
             /\ w.how = "direct" =>
                   (pc = "batch" /\ moveCount' = moveCount + 1)
             /\ w.how # "direct" =>
                   /\ pc = "interp"
                   /\ moveCount' = moveCount
                   /\ step = numSteps + 1
    /\ (pc' = "idle" /\ IsBatch(input') /\ linesRead' > 0) =>
          ~isFirstCoordinates'
    /\ (Reads /\ input' = cHOME) => UNCHANGED <<isFirstCoordinates, firstDue>>

C16_DirectOnlyWhenFirst == [][C16_Step]_vars

\* batch, HOME, batch: the first waypoint after HOME was interpolated
C16_InterpolatedAfterHome ==
    /\ Answered
    /\ linesRead = 3
    /\ IsBatch(input)
    /\ homingFrom # 0
    /\ realized[1].how = "interp"
    /\ ~isFirstCoordinates

(***************************************************************************)
(* C17.  If every blocking move completes and the homing jog eventually    *)
(* makes a step, every line received (HOME, SET_SPEED, RESET_THETA, batch  *)
(* or unrecognized) eventually returns the dispatcher to idle, ready to    *)
(* read the next line; homing ends from every reachable radial position.   *)
(***************************************************************************)
C17_ReturnsToIdle == (pc # "idle") ~> (pc = "idle")

\* a HOME line entered from a position moved to by a batch has been answered
C17_HomingEnded ==
    /\ Answered
    /\ input = cHOME
    /\ homingFrom # 0
    /\ out = <<"HOMING", "HOMED">>
    /\ inOutPos = 0

(***************************************************************************)
(* C18.  Path continuity within a batch: the first point the interpolator  *)
(* moves to (step 0) is the Motion State left by the waypoint realized     *)
(* before, so no move of an interpolated segment displaces theta by more   *)
(* than one interpolation step, also when consecutive waypoints differ by  *)
(* more than pi in theta.                                                  *)
(* The segment starts at the previous waypoint as written in the line:     *)
(* after a segment that was normalized, step 0 is a move of a whole turn.  *)
(***************************************************************************)
\* this step is a movePolar() call made by interpolatePath()
InterpMove == pc = "interp" /\ moveCount' = moveCount + 1

C18_Step ==
    InterpMove =>
        /\ step = 0 => (currentTheta' = currentTheta /\ currentRho' = currentRho)
        /\ currentTheta' - currentTheta <= interpolationResolution
        /\ currentTheta - currentTheta' <= interpolationResolution

C18_PathContinuity == [][C18_Step]_vars

\* step 0 of a segment has moved theta a whole turn away from where the
\* previous waypoint of the batch had left it
C18_JumpAtSegmentStart ==
    /\ pc = "interp"
    /\ step = 1
    /\ i >= 1
    /\ Len(realized) = i
    /\ currentTheta = startTheta
    /\ currentTheta - realized[i].theta = 2 * M_PI
    /\ 2 * (rotPos - RotSteps(realized[i].theta)) > rot_total_steps

(***************************************************************************)
(* C19.  Whenever the dispatcher is idle, after any sequence of startup    *)
(* homing, HOME, RESET_THETA, SET_SPEED and batch lines, the position      *)
(* references of the steppers are the kinematic transform of Motion State: *)
(* rotation position = steps(currentTheta), radial position =              *)
(* steps(currentRho) - offsetSteps(currentTheta).                          *)
(***************************************************************************)
C19_ReferencesMatchMotionState ==
    pc = "idle" =>
        /\ rotPos = RotSteps(currentTheta)
        /\ inOutPos = InOutSteps(currentTheta, currentRho)

\* RESET_THETA answered away from the centre, after a batch that had turned
C19_ResetAwayFromCentre ==
    /\ Answered
    /\ linesRead >= 2
    /\ input = cRESET_THETA
    /\ currentTheta = 0
    /\ rotPos = 0
    /\ currentRho = UnitsPerOne
    /\ inOutPos = inOut_total_steps

(***************************************************************************)
(* C20.  Whenever the dispatcher is about to read a line, batchComplete is *)
(* false and bufferCount is 0: every line accepted as a batch stores at    *)
(* least one pair, is drained from index 0 to bufferCount in the same      *)
(* loop() iteration and is then reset to empty, so batchComplete = true    *)
(* with bufferCount = 0 is unreachable.                                    *)
(***************************************************************************)
C20_BufferDrained ==
    /\ pc = "idle" => (~batchComplete /\ bufferCount = 0)
    /\ ~(batchComplete /\ bufferCount = 0)
    /\ pc \in {"batch", "interp"} =>
          /\ batchComplete
          /\ bufferCount >= 1
          /\ i <= bufferCount
          /\ Len(realized) = i
    /\ pc = "interp" => i < bufferCount
    /\ batchComplete => pc \in {"batch", "interp"}

\* a second batch line has been parsed, drained and acknowledged
C20_SecondBatchDrained ==
    /\ Answered
    /\ linesRead = 2
    /\ input = LineBatchA
    /\ out = <<"R">>
    /\ Len(realized) = 1
    /\ buffer[0] = realized[1].dest
    /\ buffer[1] # <<0, 0>>
    /\ bufferCount = 0
    /\ ~batchComplete

=============================================================================
